---- MODULE Spec2Model ----
(***************************************************************************)
(* State-machine model of the banana-box configurator (src/app.js,         *)
(* src/boxGeometry.js and the texture loader src/unnamed/part_000).        *)
(* Lengths are in thousandths of a scene unit (5.22 -> 5220); angles that  *)
(* the code writes as multiples of Math.PI are in degrees.                 *)
(***************************************************************************)
EXTENDS Integers, Sequences, FiniteSets, TLC

\* ------------------------------------------------------------------ bounds
\* Number of createBox calls in one run (the call made by init included).
MaxCalls == 2

\* Number of calls of the cropped-texture loaders in one run of SpecLoaders.
MaxLoaderCalls == 3

\* ------------------------------------------------------- program constants
brandsWithCroppedTextures ==
  {"FRUTALUXE", "FRUTANA JOY", "FRUTANA", "FRUTANOVA", "SINDIBAD"}

\* data-brand values of the .brand-btn buttons that are clicked: the brand the
\* box-type handler singles out, one more brand of the tables (the other three
\* take the same paths) and one brand the tables do not list.
BrandButtons == {"FRUTALUXE", "FRUTANA", "OTHER"}

BoxTypes == {"22XU", "208"}

boxDimensions ==
  [t \in BoxTypes |->
     IF t = "22XU"
     THEN [width |-> 5220, height |-> 2360, depth |-> 3870, lidHeight |-> 500]
     ELSE [width |-> 5150, height |-> 2130, depth |-> 3420, lidHeight |-> 500]]

Sides == {"front", "back", "left", "right"}

\* The 14 image files of one cropped texture set.
CroppedFiles ==
  {"right", "left", "front", "back", "interior_long", "interior_short",
   "flap_long1", "flap_long2", "flap_short1", "flap_short2",
   "flap_bottom_long1", "flap_bottom_long2", "flap_bottom_short1",
   "flap_bottom_short2"}

\* Which files of a cropped set fail to load in one loader run.
FailurePatterns == {{}, {"right", "interior_long"}}

\* The same for a loader called on its own: also one bottom flap file alone
\* and all 14 files.
LoaderFailurePatterns ==
  FailurePatterns \cup {{"flap_bottom_long1"}, CroppedFiles}

\* The kind of asset that may fail to load in a run; loads of the other
\* kinds succeed.
FaultKinds == {"texture", "cropped", "model"}

Vec(a, b, c) == [x |-> a, y |-> b, z |-> c]

Calls == 1 .. MaxCalls

\* ------------------------------------------------------------ scene graph
Group(k) == <<"group", k>>
Body(k) == <<"body", k>>
Lid(k) == <<"lid", k>>
LidSide(k, sd) == <<"lidside", k, sd>>
Flap(k, sd) == <<"flap", k, sd>>
Banana(k, i) == <<"banana", k, i>>
TextureSet(k) == <<"textureSet", k>>

Containers == {Group(k) : k \in Calls} \cup {Lid(k) : k \in Calls}

\* Object3D.add: the object leaves the parent it had and joins the target.
AddChild(ch, target, obj) ==
  [c \in DOMAIN ch |-> IF c = target THEN ch[c] \cup {obj} ELSE ch[c] \ {obj}]

AddChildren(ch, target, objs) ==
  [c \in DOMAIN ch |-> IF c = target THEN ch[c] \cup objs ELSE ch[c] \ objs]

\* Object3D.remove: only a child of the target is removed.
RemoveChild(ch, target, obj) ==
  [c \in DOMAIN ch |-> IF c = target THEN ch[c] \ {obj} ELSE ch[c]]

\* Object3D.traverse: the object and everything below it.
Descendants(ch, g) ==
  ch[g] \cup UNION {ch[c] : c \in (ch[g] \cap Containers)}

\* The traversed objects that carry a geometry and a material.
HasGeometry(o) == o[1] \in {"body", "lidside", "flap", "banana"}

\* --------------------------------------------------------------- textures
NoTex == [kind |-> "none", by |-> 0, fill |-> "", label |-> ""]

colors ==
  [b \in brandsWithCroppedTextures |->
     CASE b = "FRUTANA" -> "#e74c3c"
       [] b = "FRUTANOVA" -> "#3498db"
       [] b = "SINDIBAD" -> "#f39c12"
       [] b = "FRUTANA JOY" -> "#9b59b6"
       [] OTHER -> "#1abc9c"]

createFallbackTexture(brand, k) ==
  [kind |-> "fallback", by |-> k,
   fill |-> IF brand \in DOMAIN colors THEN colors[brand] ELSE colors["FRUTANA"],
   label |-> brand]

\* Cache keys: `${brand}_${boxType}` and `<BRAND>_22XU_CROPPED_SET`.
TextureKey(brand, boxType) == <<brand, boxType>>
CroppedKey(brand) == <<brand, "22XU_CROPPED_SET">>

CacheKeys ==
  {TextureKey(b, t) : b \in BrandButtons, t \in BoxTypes}
    \cup {CroppedKey(b) : b \in brandsWithCroppedTextures}

\* onLoad callback of loadTexture: the promise resolves with the image.
OnTextureLoad(brand, k) ==
  [settled |-> "resolved",
   value |-> [kind |-> "image", by |-> k, fill |-> "", label |-> ""]]

\* An onError callback that rejects the promise instead.
OnTextureErrorRejects(brand, k) == [settled |-> "rejected", value |-> NoTex]

\* onError callback of loadTexture: the promise resolves with a placeholder.
OnTextureError(brand, k) ==
  [settled |-> "resolved", value |-> createFallbackTexture(brand, k)]

\* An onError callback of loadOne that resolves the file's promise with no
\* texture.
OnCroppedFileErrorUndefined(brand, k) == NoTex

\* onError callback of loadOne: the file's promise resolves with the
\* placeholder of the loader's brand.
OnCroppedFileError(brand, k) == createFallbackTexture(brand, k)

\* onLoad callback of loadOne: the file's promise resolves with the image.
OnCroppedFileLoad(brand, k) ==
  [kind |-> "image", by |-> k, fill |-> "", label |-> ""]

\* Object.fromEntries(results): the texture each of the 14 files resolved
\* with.
CroppedMap(brand, k, failed) ==
  [f \in CroppedFiles |->
     IF f \in failed
     THEN OnCroppedFileError(brand, k)
     ELSE OnCroppedFileLoad(brand, k)]

\* The set a cropped-texture loader builds from the map; the bottom face
\* takes the texture of the first bottom flap.
SetOfMap(brand, k, map) ==
  [kind |-> "set", by |-> k, brand |-> brand,
   faces |-> [right |-> map["right"], left |-> map["left"],
              front |-> map["front"], back |-> map["back"],
              bottom |-> map["flap_bottom_long1"]],
   interiors |-> [long |-> map["interior_long"],
                  short |-> map["interior_short"]],
   flaps |-> [top |-> [long1 |-> map["flap_long1"],
                       long2 |-> map["flap_long2"],
                       short1 |-> map["flap_short1"],
                       short2 |-> map["flap_short2"]],
              bottom |-> [long1 |-> map["flap_bottom_long1"],
                          long2 |-> map["flap_bottom_long2"],
                          short1 |-> map["flap_bottom_short1"],
                          short2 |-> map["flap_bottom_short2"]]]]

\* One cropped set: every file is the image or the brand's placeholder.
CroppedSet(brand, k, failed) == SetOfMap(brand, k, CroppedMap(brand, k, failed))

\* croppedTextureSet = null.
NoSet ==
  [kind |-> "none", by |-> 0, brand |-> "", faces |-> <<>>,
   interiors |-> <<>>, flaps |-> <<>>]

\* The cache check of a cropped-texture loader: four loaders return the
\* cached set; the FRUTANA loader never does.
CroppedCacheHit(cache, brand) ==
  cache[CroppedKey(brand)].kind # "none" /\ brand # "FRUTANA"

\* ------------------------------------------------------------------ state
VARIABLES
  scene,              \* box groups that are children of the scene
  children,           \* children of every box group and lid group
  disposed,           \* objects whose geometry and material were disposed
  boxGroup, boxBody, lidGroup,
  leftFlap, rightFlap, frontFlap, backFlap,
  bananas, bananaModel,
  dimensionsVisible, dimensionsGroup,
  currentBrand, currentBoxType, flapsOpen, lidOpen,
  textureCache,
  lidBtnDisplay,      \* style.display of #toggleLidBtn
  bodyType,           \* box type whose dimensions a box body was built with
  flapRotation,       \* closing rotation of the four flaps of a build
  lidPos, lidTween,   \* lidGroup.position and the tween running on it
  calls, nCalls,      \* the createBox calls and their locals
  consoleErrors,      \* console.error calls of the handlers that call createBox
  faults,             \* environment: the kind of asset that may fail to load
  loaderCalls,        \* calls of the cropped-texture loaders made on their own
  packBox,            \* box type of the body createBananas measures
  packModel,          \* bounding box of the banana model createBananas clones
  placed,             \* the model bananas the placement loop has placed
  uvBox               \* arguments and uv attribute of createBoxWithCustomUVs

vars ==
  <<scene, children, disposed, boxGroup, boxBody, lidGroup, leftFlap,
    rightFlap, frontFlap, backFlap, bananas, bananaModel, dimensionsVisible,
    dimensionsGroup, currentBrand, currentBoxType, flapsOpen, lidOpen,
    textureCache, lidBtnDisplay, bodyType, flapRotation, lidPos, lidTween,
    calls, nCalls, consoleErrors, faults, loaderCalls, packBox, packModel,
    placed, uvBox>>

\* The state as one record, so that the segments of the asynchronous
\* functions compose.
St ==
  [scene |-> scene, children |-> children, disposed |-> disposed,
   boxGroup |-> boxGroup, boxBody |-> boxBody, lidGroup |-> lidGroup,
   leftFlap |-> leftFlap, rightFlap |-> rightFlap, frontFlap |-> frontFlap,
   backFlap |-> backFlap, bananas |-> bananas, bananaModel |-> bananaModel,
   dimensionsVisible |-> dimensionsVisible,
   dimensionsGroup |-> dimensionsGroup, currentBrand |-> currentBrand,
   currentBoxType |-> currentBoxType, flapsOpen |-> flapsOpen,
   lidOpen |-> lidOpen, textureCache |-> textureCache,
   lidBtnDisplay |-> lidBtnDisplay, bodyType |-> bodyType,
   flapRotation |-> flapRotation, lidPos |-> lidPos,
   lidTween |-> lidTween, calls |-> calls, nCalls |-> nCalls,
   consoleErrors |-> consoleErrors]

\* The step to state s.  The state is evaluated once, as the one element of
\* a set.
Commit(s) ==
  \E t \in {s} :
    /\ scene' = t.scene
    /\ children' = t.children
    /\ disposed' = t.disposed
    /\ boxGroup' = t.boxGroup
    /\ boxBody' = t.boxBody
    /\ lidGroup' = t.lidGroup
    /\ leftFlap' = t.leftFlap
    /\ rightFlap' = t.rightFlap
    /\ frontFlap' = t.frontFlap
    /\ backFlap' = t.backFlap
    /\ bananas' = t.bananas
    /\ bananaModel' = t.bananaModel
    /\ dimensionsVisible' = t.dimensionsVisible
    /\ dimensionsGroup' = t.dimensionsGroup
    /\ currentBrand' = t.currentBrand
    /\ currentBoxType' = t.currentBoxType
    /\ flapsOpen' = t.flapsOpen
    /\ lidOpen' = t.lidOpen
    /\ textureCache' = t.textureCache
    /\ lidBtnDisplay' = t.lidBtnDisplay
    /\ bodyType' = t.bodyType
    /\ flapRotation' = t.flapRotation
    /\ lidPos' = t.lidPos
    /\ lidTween' = t.lidTween
    /\ calls' = t.calls
    /\ nCalls' = t.nCalls
    /\ consoleErrors' = t.consoleErrors
    /\ UNCHANGED <<faults, loaderCalls, packBox, packModel, placed, uvBox>>

\* Locals of a createBox call.  pc is the await the call is suspended on;
\* prev and alone record the box group and the calls in flight at its start.
NoCall ==
  [pc |-> "idle", type |-> "22XU", brand |-> "", texture |-> NoTex,
   hasCroppedTextures |-> FALSE, croppedTextureSet |-> NoSet,
   setBrand |-> "", bananaKind |-> "none", prev |-> 0, prevObjects |-> {},
   alone |-> FALSE]

Suspended == {"texture", "cropped", "model"}

InFlight(s) == {k \in Calls : s.calls[k].pc \in Suspended}

\* ---------------------------------------------------- dimension annotations
\* The three dimension lines, each followed by its two arrows.
DimensionAnnotations(dims) ==
  LET widthY == dims.height + 1500
      frontZ == dims.depth \div 2 + 500
      halfW == dims.width \div 2
      halfD == dims.depth \div 2
      heightX == dims.width \div 2 + 1000
      depthX == dims.width \div 2 + 1000
      depthY == dims.height + 500
      Line(a, b) == [kind |-> "line", from |-> a, to |-> b, dir |-> Vec(0, 0, 0)]
      Arrow(a, d) == [kind |-> "arrow", from |-> a, to |-> a, dir |-> d]
  IN << Line(Vec(-halfW, widthY, frontZ), Vec(halfW, widthY, frontZ)),
        Arrow(Vec(-halfW, widthY, frontZ), Vec(1, 0, 0)),
        Arrow(Vec(halfW, widthY, frontZ), Vec(-1, 0, 0)),
        Line(Vec(heightX, 0, frontZ), Vec(heightX, dims.height, frontZ)),
        Arrow(Vec(heightX, 0, frontZ), Vec(0, 1, 0)),
        Arrow(Vec(heightX, dims.height, frontZ), Vec(0, -1, 0)),
        Line(Vec(depthX, depthY, -halfD), Vec(depthX, depthY, halfD)),
        Arrow(Vec(depthX, depthY, -halfD), Vec(0, 0, 1)),
        Arrow(Vec(depthX, depthY, halfD), Vec(0, 0, -1)) >>

\* An updateDimensions that draws the annotations of the 22XU box whatever
\* the current box type is.
updateDimensionsOfFirstType(s) ==
  IF ~s.dimensionsVisible
  THEN [s EXCEPT !.dimensionsGroup = <<>>]
  ELSE [s EXCEPT !.dimensionsGroup =
                    DimensionAnnotations(boxDimensions["22XU"])]

\* Lines 1268-1364: the group is cleared, and refilled when visible.
updateDimensions(s) ==
  IF ~s.dimensionsVisible
  THEN [s EXCEPT !.dimensionsGroup = <<>>]
  ELSE [s EXCEPT !.dimensionsGroup =
                    DimensionAnnotations(boxDimensions[s.currentBoxType])]

toggleDimensions(s) ==
  updateDimensions([s EXCEPT !.dimensionsVisible = ~s.dimensionsVisible])

\* -------------------------------------------------------------------- lid
\* No tween runs on the position of the current lid group.
NoTween == [active |-> FALSE, target |-> Vec(0, 0, 0)]

\* The position the lid is animated to for a value of lidOpen.
LidTarget(open, boxType) ==
  LET dims == boxDimensions[boxType]
      liftHeight == dims.height + 500
      sideOffset == (dims.width * 12) \div 10
  IN IF open THEN Vec(sideOffset, liftHeight, 0) ELSE Vec(0, 0, 0)

toggleLid(s) ==
  IF s.lidGroup = 0 THEN s
  ELSE LET open == ~s.lidOpen
       IN [s EXCEPT
             !.lidOpen = open,
             !.lidTween = [active |-> TRUE,
                           target |-> LidTarget(open, s.currentBoxType)]]

\* Visibility rule of the lid button in createBox and in the brand handler.
HasCropped(brand, boxType) ==
  (boxType = "22XU" \/ boxType = "208") /\ brand \in brandsWithCroppedTextures

\* ------------------------------------------------------- createBox, tail
\* A tail of createBox that leaves lidOpen and the lid where they are.
FinishCreateBoxKeepsLid(s, k) ==
  LET s1 == [s EXCEPT !.scene = @ \cup {s.boxGroup}]
      s2 == updateDimensions(s1)
  IN [s2 EXCEPT
        !.lidBtnDisplay =
           IF HasCropped(s.currentBrand, s.currentBoxType)
           THEN "flex" ELSE "none",
        !.calls[k].pc = "done"]

\* Lines 768-797: the part of createBox after `await createBananas(dims)`.
FinishCreateBox(s, k) ==
  LET s1 == [s EXCEPT !.scene = @ \cup {s.boxGroup}]
      s2 == updateDimensions(s1)
  IN [s2 EXCEPT
        !.lidBtnDisplay =
           IF HasCropped(s.currentBrand, s.currentBoxType)
           THEN "flex" ELSE "none",
        !.lidOpen = FALSE,
        !.lidPos = IF s.lidGroup = 0 THEN @ ELSE [@ EXCEPT !.y = 0],
        !.calls[k].pc = "done"]

\* ------------------------------------------------------------ createBananas
bananaRows == 2
bananaCols == 4
bananaCount == 4

SeqOfBananas(k, n) == [i \in 1 .. n |-> Banana(k, i)]

\* Lines 853-1019: the eight clones of the model, each added to the current
\* box group and pushed to bananas.
PlaceModelBananas(s, k) ==
  LET n == bananaRows * bananaCols
  IN [s EXCEPT
        !.children = AddChildren(@, Group(s.boxGroup),
                                 {Banana(k, i) : i \in 1 .. n}),
        !.bananas = @ \o SeqOfBananas(k, n),
        !.calls[k].bananaKind = "model"]

\* A catch block that rethrows, so that createBox rejects.
CatchBananaErrorRethrows(s, k) == [s EXCEPT !.calls[k].pc = "rejected"]

\* Lines 1021-1062: the catch block builds four procedural bananas.
CatchBananaError(s, k) ==
  [s EXCEPT
     !.children = AddChildren(@, Group(s.boxGroup),
                              {Banana(k, i) : i \in 1 .. bananaCount}),
     !.bananas = @ \o SeqOfBananas(k, bananaCount),
     !.calls[k].bananaKind = "fallback"]

\* createBananas resumed by the settled promise of loadBananaModel, and the
\* rest of createBox after it.
AfterModel(s, k, settled) ==
  LET s1 == IF settled = "resolved"
            THEN PlaceModelBananas(s, k)
            ELSE CatchBananaError(s, k)
  IN IF s1.calls[k].pc = "rejected" THEN s1 ELSE FinishCreateBox(s1, k)

\* Lines 833-847: every banana of the array is removed from the current box
\* group and disposed, and the array is emptied.
ClearBananas(s) ==
  LET old == {s.bananas[i] : i \in 1 .. Len(s.bananas)}
  IN [s EXCEPT
        !.children = [c \in DOMAIN @ |->
                        IF c = Group(s.boxGroup) THEN @[c] \ old ELSE @[c]],
        !.disposed = @ \cup old,
        !.bananas = <<>>]

\* A createBananas whose loadBananaModel loads the model whether or not one
\* is cached.
createBananasAlwaysLoads(s, k) ==
  [ClearBananas(s) EXCEPT !.calls[k].pc = "model"]

\* createBananas up to `await loadBananaModel()`: a cached model resumes the
\* call synchronously, otherwise the call waits for the GLTF load.
createBananas(s, k) ==
  LET s1 == ClearBananas(s)
  IN IF s1.bananaModel # 0
     THEN AfterModel(s1, k, "resolved")
     ELSE [s1 EXCEPT !.calls[k].pc = "model"]

\* ------------------------------------------- createBananas, the placement
\* Lengths of the placement are in units of 1 / (1000 * FineUnit), so that
\* half cells, scaled sizes and rotated extents are all whole numbers.
FineUnit == 8 * 2005

wallThickness == 20
countY == 1

Axes == {"x", "y", "z"}

\* An angle as cosine c / d and sine s / d.
Angle(c, s, d) == [c |-> c, s |-> s, d |-> d]

\* Values of banana.rotation: each is within the ranges the code draws from,
\* x and z in [-0.1, 0.1) and y in [0, 0.3 * pi).  asin(40 / 401) = 0.0999
\* and asin(3 / 5) = 0.6435.
Rotations ==
  { [x |-> Angle(401, 0, 401), y |-> Angle(5, 0, 5), z |-> Angle(1, 0, 1)],
    [x |-> Angle(399, 40, 401), y |-> Angle(4, 3, 5), z |-> Angle(1, 0, 1)],
    [x |-> Angle(1, 0, 1), y |-> Angle(4, 3, 5), z |-> Angle(399, -40, 401)] }

NoRotation ==
  [x |-> Angle(401, 0, 401), y |-> Angle(5, 0, 5), z |-> Angle(1, 0, 1)]

RotationDen(rot) == rot.x.d * rot.y.d * rot.z.d

\* The rotation matrix of an XYZ Euler rotation, times RotationDen(rot).
RotationMatrix(rot) ==
  LET A == rot.x
      B == rot.y
      C == rot.z
  IN [x |-> Vec(A.d * B.c * C.c, -(A.d * B.c * C.s), A.d * B.s * C.d),
      y |-> Vec(A.s * B.s * C.c + A.c * B.d * C.s,
                A.c * B.d * C.c - A.s * B.s * C.s,
                -(A.s * B.c * C.d)),
      z |-> Vec(A.s * B.d * C.s - A.c * B.s * C.c,
                A.c * B.s * C.s + A.s * B.d * C.c,
                A.c * B.c * C.d)]

Abs(n) == IF n < 0 THEN -n ELSE n

\* Bounding boxes of the banana model, as Box3.setFromObject(model) gives
\* them: a size and the position of the box's centre relative to the model's
\* origin, in the model's own units.  The first lies along x around its
\* origin, the second lies along z with its origin at one end, the third
\* stands on its origin.
BananaModels ==
  { [size |-> Vec(10, 2, 5), centre |-> Vec(0, 0, 0)],
    [size |-> Vec(2, 2, 10), centre |-> Vec(0, 1, 5)],
    [size |-> Vec(2, 10, 2), centre |-> Vec(0, 5, 0)] }

\* Lines 868-876: the bounding box of the box body and the internal cavity.
BoxBB(boxType) ==
  LET dims == boxDimensions[boxType]
      w == dims.width * FineUnit
      h == dims.height * FineUnit
      d == dims.depth * FineUnit
  IN [min |-> Vec(-(w \div 2), 0, -(d \div 2)),
      max |-> Vec(w \div 2, h, d \div 2)]

InternalSize(boxType) ==
  LET bb == BoxBB(boxType)
      wall == wallThickness * FineUnit
  IN Vec((bb.max.x - bb.min.x) - wall * 2,
         (bb.max.y - bb.min.y) - wall,
         (bb.max.z - bb.min.z) - wall * 2)

\* Lines 885-887: the grid cell.
Cell(boxType) ==
  LET internalSize == InternalSize(boxType)
  IN Vec(internalSize.x \div bananaCols,
         internalSize.y \div countY,
         internalSize.z \div bananaRows)

\* A scale factor that fills the cell on the loosest axis: the greatest of
\* cell / bananaSize.
MaxRatio(cell, bananaSize) ==
  LET loose == CHOOSE a \in Axes :
                 \A b \in Axes :
                   cell[a] * bananaSize[b] >= cell[b] * bananaSize[a]
  IN [n |-> cell[loose], d |-> bananaSize[loose]]

\* Lines 890-893: scaleFactor, the least of cell / bananaSize over the three
\* axes, as the fraction n / d.
MinRatio(cell, bananaSize) ==
  LET tight == CHOOSE a \in Axes :
                 \A b \in Axes :
                   cell[a] * bananaSize[b] <= cell[b] * bananaSize[a]
  IN [n |-> cell[tight], d |-> bananaSize[tight]]

ScaleFactor(boxType, model) == MinRatio(Cell(boxType), model.size)

Scaled(v, scale) == (v * scale.n) \div scale.d

\* Lines 928-939: floorY and the bounds of the internal cavity.
FloorY(boxType) == BoxBB(boxType).min.y + wallThickness * FineUnit

InternalMin(boxType) ==
  LET bb == BoxBB(boxType)
      wall == wallThickness * FineUnit
  IN Vec(bb.min.x + wall, FloorY(boxType), bb.min.z + wall)

InternalMax(boxType) ==
  LET bb == BoxBB(boxType)
      wall == wallThickness * FineUnit
  IN Vec(bb.max.x - wall, bb.max.y - wall, bb.max.z - wall)

\* The model's bounding box after banana.scale.setScalar(scaleFactor).
ScaledBox(model, scale) ==
  [size |-> [a \in Axes |-> Scaled(model.size[a], scale)],
   centre |-> [a \in Axes |-> Scaled(model.centre[a], scale)]]

\* The bounding box of a box turned about the origin by the matrix m / den.
RotatedBox(box, m, den) ==
  LET Centre(a) == m[a].x * (box.centre.x \div den)
                     + m[a].y * (box.centre.y \div den)
                     + m[a].z * (box.centre.z \div den)
      Half(a) == Abs(m[a].x) * (box.size.x \div (2 * den))
                   + Abs(m[a].y) * (box.size.y \div (2 * den))
                   + Abs(m[a].z) * (box.size.z \div (2 * den))
  IN [min |-> [a \in Axes |-> Centre(a) - Half(a)],
      max |-> [a \in Axes |-> Centre(a) + Half(a)]]

\* Box3.setFromObject(banana), relative to banana.position: the model's
\* bounding box, scaled and rotated about the origin of the model.
Extent(boxType, model, rot) ==
  RotatedBox(ScaledBox(model, ScaleFactor(boxType, model)),
             RotationMatrix(rot), RotationDen(rot))

\* A banana left where the grid put it.
NoClamp(p, lo, hi, internalMin, internalMax) == p

\* Lines 988-1000: the clamp of one coordinate of banana.position, from the
\* bounding box [lo, hi] of the banana on that axis.
Clamp(p, lo, hi, internalMin, internalMax) ==
  IF lo < internalMin THEN p + (internalMin - lo)
  ELSE IF hi > internalMax THEN p - (hi - internalMax)
  ELSE p

\* Lines 942-943 and 971-972: the centre of the cell of row r and column c
\* of the grid between lo and hi.
GridCentre(lo, hi, r, c) ==
  [x |-> lo.x + (((hi.x - lo.x) \div bananaCols) * (2 * c + 1)) \div 2,
   z |-> lo.z + (((hi.z - lo.z) \div bananaRows) * (2 * r + 1)) \div 2]

CellCentre(boxType, r, c) ==
  GridCentre(InternalMin(boxType), InternalMax(boxType), r, c)

\* Lines 980-1017: the banana with extent e is put at the cell centre,
\* clamped in x and z and set on the floor.
PlaceAt(e, centre, lo, hi, floorY, rot) ==
  LET x == Clamp(centre.x, centre.x + e.min.x, centre.x + e.max.x, lo.x, hi.x)
      z == Clamp(centre.z, centre.z + e.min.z, centre.z + e.max.z, lo.z, hi.z)
      pivotToBottom == (0 + e.min.y) - 0
      y == floorY - pivotToBottom
  IN [rotation |-> rot,
      start |-> Vec(centre.x, 0, centre.z),
      position |-> Vec(x, y, z),
      min |-> Vec(x + e.min.x, y + e.min.y, z + e.min.z),
      max |-> Vec(x + e.max.x, y + e.max.y, z + e.max.z)]

\* Lines 954-1019: one turn of the placement loop, for row r and column c.
PlaceBanana(boxType, model, r, c, rot) ==
  [scale |-> ScaleFactor(boxType, model)]
    @@ PlaceAt(Extent(boxType, model, rot), CellCentre(boxType, r, c),
               InternalMin(boxType), InternalMax(boxType), FloorY(boxType),
               rot)

\* ------------------------------------------- boxGeometry.js, the UV layout
\* JavaScript numbers are binary floating-point numbers, every operation
\* rounding its exact result to the nearest one (ties to even).  The model
\* keeps the rule and shortens the significand from 53 bits to MantissaBits.
\* A number between 0 and 2 is held as a whole number of units of
\* 2^-FractionBits; the box dimensions are whole numbers below
\* 2^MantissaBits, which are exact.  Products of two numbers in units stay
\* below 2^31 for MantissaBits up to 7.
MantissaBits == 6

\* Largest width, height and depth createBoxWithCustomUVs is called with.
MaxDim == 5

RECURSIVE Pow2(_)
Pow2(n) == IF n = 0 THEN 1 ELSE 2 * Pow2(n - 1)

FractionBits == MantissaBits + 8

\* 1.0 in units.
One == Pow2(FractionBits)

\* The spacing u of the floating-point numbers around q units: the power of
\* two with 2^(MantissaBits - 1) * u <= q < 2^MantissaBits * u.
RECURSIVE UlpOf(_, _)
UlpOf(q, u) == IF Pow2(MantissaBits) * u <= q THEN UlpOf(q, 2 * u) ELSE u

\* The floating-point number nearest to num / den units, in units.
RoundToFloat(num, den) ==
  IF num = 0 THEN 0
  ELSE LET u == UlpOf(num \div den, 1)
           k == num \div (den * u)
           rem == num % (den * u)
           up == \/ 2 * rem > den * u
                 \/ 2 * rem = den * u /\ k % 2 = 1
       IN (IF up THEN k + 1 ELSE k) * u

\* a * b, a + b and a - b of two numbers in units, a / 2, and a / b of two
\* whole numbers.
FMul(a, b) == RoundToFloat(a * b, One)
FAdd(a, b) == RoundToFloat(a + b, 1)
FSub(a, b) == RoundToFloat(a - b, 1)
FHalf(a) == RoundToFloat(a, 2)
FDiv(a, b) == RoundToFloat(a * One, b)

\* A layout without margins: the literal 0.0.
marginNone == RoundToFloat(0, 1)

\* Line 127: const margin = 0.05, the literal rounded.
margin == RoundToFloat(One, 20)

\* A front face put on the other side of the bottom face's lower edge.
FrontTopAtBottomTop(bottomTop, bottomBottom) == bottomTop

\* Line 150: const frontTop = bottomBottom.
FrontTop(bottomTop, bottomBottom) == bottomBottom

\* The four corners a face is returned with: bottom-left, bottom-right,
\* top-right, top-left.
Corners(left, right, top, bottom) ==
  [u1 |-> left, v1 |-> bottom, u2 |-> right, v2 |-> bottom,
   u3 |-> right, v3 |-> top, u4 |-> left, v4 |-> top]

\* Lines 121-223.
calculateUnfoldedUVLayout(width, height, depth) ==
  LET layoutWidth == depth + width + depth
      layoutHeight == height + depth + height
      usableWidth == FSub(One, FMul(2 * One, margin))
      usableHeight == FSub(One, FMul(2 * One, margin))
      normWidth == FMul(FDiv(width, layoutWidth), usableWidth)
      normHeight == FMul(FDiv(height, layoutHeight), usableHeight)
      normDepth == FMul(FDiv(depth, layoutHeight), usableHeight)
      normDepthSide == FMul(FDiv(depth, layoutWidth), usableWidth)
      centerU == One \div 2
      centerV == One \div 2
      bottomLeft == FSub(centerU, FHalf(normWidth))
      bottomRight == FAdd(centerU, FHalf(normWidth))
      bottomTop == FSub(centerV, FHalf(normDepth))
      bottomBottom == FAdd(centerV, FHalf(normDepth))
      frontTop == FrontTop(bottomTop, bottomBottom)
      frontBottom == FAdd(frontTop, normHeight)
      backBottom == bottomTop
      backTop == FSub(backBottom, normHeight)
      leftRight == bottomLeft
      leftLeft == FSub(leftRight, normDepthSide)
      rightLeft == bottomRight
      rightRight == FAdd(rightLeft, normDepthSide)
  IN [bottom |-> Corners(bottomLeft, bottomRight, bottomTop, bottomBottom),
      front |-> Corners(bottomLeft, bottomRight, frontTop, frontBottom),
      back |-> Corners(bottomLeft, bottomRight, backTop, backBottom),
      left |-> Corners(leftLeft, leftRight, bottomTop, bottomBottom),
      right |-> Corners(rightLeft, rightRight, bottomTop, bottomBottom)]

\* Lines 228-234: the four vertices of a face, from startIndex on.
setFaceUVs(uvAttribute, startIndex, c) ==
  [i \in DOMAIN uvAttribute |->
     IF i = startIndex THEN <<c.u1, c.v1>>
     ELSE IF i = startIndex + 1 THEN <<c.u2, c.v2>>
     ELSE IF i = startIndex + 2 THEN <<c.u3, c.v3>>
     ELSE IF i = startIndex + 3 THEN <<c.u4, c.v4>>
     ELSE uvAttribute[i]]

\* Lines 14-20: the first vertex of each face of a BoxGeometry.
FaceStart ==
  [right |-> 0, left |-> 4, top |-> 8, bottom |-> 12, front |-> 16,
   back |-> 20]

\* The uv attribute of a new BoxGeometry: every face covers the texture.
BoxGeometryUV ==
  [i \in 0 .. 23 |->
     <<IF i % 4 \in {1, 3} THEN One ELSE 0, IF i % 4 \in {0, 1} THEN One ELSE 0>>]

\* Lines 9-102: the uv attribute of the geometry returned.
createBoxWithCustomUVs(width, height, depth) ==
  LET uvLayout == calculateUnfoldedUVLayout(width, height, depth)
      small == RoundToFloat(One, 100)
      top == [u1 |-> 0, v1 |-> 0, u2 |-> small, v2 |-> 0,
              u3 |-> small, v3 |-> small, u4 |-> 0, v4 |-> small]
      a0 == setFaceUVs(BoxGeometryUV, 0, uvLayout.right)
      a1 == setFaceUVs(a0, 4, uvLayout.left)
      a2 == setFaceUVs(a1, 8, top)
      a3 == setFaceUVs(a2, 12, uvLayout.bottom)
      a4 == setFaceUVs(a3, 16, uvLayout.front)
  IN setFaceUVs(a4, 20, uvLayout.back)

\* No call of createBoxWithCustomUVs.
NoUVBox == [width |-> 1, height |-> 1, depth |-> 1, uv |-> <<>>]

\* ------------------------------------------------------- createBox, build
\* Flaps built standing open (rotation 0 on every hinge).
FlapBuiltOpen(sd) == 0

\* Closed rotation of a top flap, in degrees (-Math.PI, Math.PI, Math.PI,
\* -Math.PI on the flap's hinge axis).
FlapClosedRotation(sd) ==
  CASE sd = "front" -> -180
    [] sd = "back" -> 180
    [] sd = "left" -> 180
    [] OTHER -> -180

\* Lines 200 and 280: new THREE.BoxGeometry(dims.width, dims.height,
\* dims.depth), the geometry of the box body in both branches.
BoxGeometry(dims) ==
  [width |-> dims.width, height |-> dims.height, depth |-> dims.depth]

\* A box body built with the dims of the box type current at build time.
BuildBodyOfCurrentType(s, k) ==
  [s EXCEPT
     !.boxBody = k,
     !.bodyType[k] = s.currentBoxType,
     !.children = AddChild(@, Group(s.boxGroup), Body(k))]

\* Lines 200-293: the box body, built with the dims read at the call's start
\* and added to the current box group.
BuildBody(s, k) ==
  [s EXCEPT
     !.boxBody = k,
     !.bodyType[k] = s.calls[k].type,
     !.children = AddChild(@, Group(s.boxGroup), Body(k))]

\* Lines 295-508: the lid group with its four sides, or no lid group.
BuildLid(s, k, hasLidStructure) ==
  IF hasLidStructure
  THEN [s EXCEPT
          !.lidGroup = k,
          !.lidPos = Vec(0, 0, 0),
          !.lidTween = NoTween,
          !.children =
             AddChild(AddChildren(@, Lid(k), {LidSide(k, sd) : sd \in Sides}),
                      Group(s.boxGroup), Lid(k))]
  ELSE [s EXCEPT !.lidGroup = 0, !.lidPos = Vec(0, 0, 0), !.lidTween = NoTween]

\* Lines 512-763: the four top flaps, closed, children of the lid group when
\* there is one and of the box group otherwise.
BuildFlaps(s, k, hasLidStructure) ==
  [s EXCEPT
     !.frontFlap = k, !.backFlap = k, !.leftFlap = k, !.rightFlap = k,
     !.flapRotation[k] = [sd \in Sides |-> FlapClosedRotation(sd)],
     !.children =
        AddChildren(@,
                    IF hasLidStructure /\ s.lidGroup # 0
                    THEN Lid(s.lidGroup) ELSE Group(s.boxGroup),
                    {Flap(k, sd) : sd \in Sides})]

\* Lines 200-766: everything between the texture loads and the model load.
Build(s, k) ==
  LET hasLidStructure ==
        s.calls[k].hasCroppedTextures
          /\ s.calls[k].croppedTextureSet.kind = "set"
      s1 == BuildBody(s, k)
      s2 == BuildLid(s1, k, hasLidStructure)
      s3 == BuildFlaps(s2, k, hasLidStructure)
  IN createBananas(s3, k)

\* ------------------------------------------------ createBox, texture loads
\* A choice of loader that gives the 208 boxes of every brand one loader.
CroppedLoaderKeyPerType(brand, boxType) ==
  IF boxType = "208" THEN CroppedKey("FRUTALUXE") ELSE CroppedKey(brand)

\* Lines 171-198: the loader createBox picks, named by the cache key the
\* loader works on: the brand's 22XU set for both box types.
CroppedLoaderKey(brand, boxType) == CroppedKey(brand)

\* createBox resumed with the cropped texture set.
AfterCropped(s, k, set) ==
  Build([s EXCEPT !.calls[k].croppedTextureSet = set], k)

\* The cropped-texture loader of the current brand up to its promise.  The
\* loaders of four brands return a cached set synchronously; the FRUTANA
\* loader deletes a cached set, disposes its textures and loads again.
loadCroppedTextures(s, k) ==
  LET key == CroppedLoaderKey(s.currentBrand, s.currentBoxType)
      brand == key[1]
      cached == s.textureCache[key]
  IN IF CroppedCacheHit(s.textureCache, brand)
     THEN AfterCropped(s, k, cached)
     ELSE [s EXCEPT
             !.textureCache[key] = NoTex,
             !.disposed = IF cached.kind # "none"
                          THEN @ \cup {TextureSet(cached.by)} ELSE @,
             !.calls[k].pc = "cropped",
             !.calls[k].setBrand = brand]

\* Lines 148-198: createBox resumed by the settled promise of loadTexture.
AfterTexture(s, k, result) ==
  IF result.settled = "rejected"
  THEN [s EXCEPT !.calls[k].pc = "rejected"]
  ELSE LET hasCroppedTextures == HasCropped(s.currentBrand, s.currentBoxType)
           s1 == [s EXCEPT
                    !.calls[k].texture = result.value,
                    !.calls[k].hasCroppedTextures = hasCroppedTextures]
       IN IF ~hasCroppedTextures THEN Build(s1, k)
          ELSE loadCroppedTextures(s1, k)

\* loadTexture up to its promise: a cached texture resumes createBox in the
\* same turn, otherwise the call waits for the image load.
loadTexture(s, k, brand, boxType) ==
  LET cacheKey == TextureKey(brand, boxType)
  IN IF s.textureCache[cacheKey].kind # "none"
     THEN AfterTexture(s, k, [settled |-> "resolved",
                              value |-> s.textureCache[cacheKey]])
     ELSE [s EXCEPT !.calls[k].pc = "texture"]

\* ------------------------------------------------------- createBox, start
\* A disposal that leaves the previous group in the scene.
DisposePreviousKeepsInScene(s) ==
  IF s.boxGroup = 0 THEN s
  ELSE [s EXCEPT
          !.disposed =
             @ \cup {o \in Descendants(s.children, Group(s.boxGroup)) :
                       HasGeometry(o)}]

\* Lines 130-142: the previous group leaves the scene and the geometry and
\* material of everything below it are disposed.
DisposePrevious(s) ==
  IF s.boxGroup = 0 THEN s
  ELSE [s EXCEPT
          !.scene = @ \ {s.boxGroup},
          !.disposed =
             @ \cup {o \in Descendants(s.children, Group(s.boxGroup)) :
                       HasGeometry(o)}]

\* Lines 144-148: the new group and dims, then the call of loadTexture.  s0
\* is the state the call started in.
BeginCreateBox(s1, s0, k) ==
  LET s2 == [s1 EXCEPT
               !.boxGroup = k,
               !.nCalls = k,
               !.calls[k] =
                  [NoCall EXCEPT
                     !.pc = "texture",
                     !.type = s0.currentBoxType,
                     !.brand = s0.currentBrand,
                     !.prev = s0.boxGroup,
                     !.prevObjects =
                        IF s0.boxGroup = 0 THEN {}
                        ELSE {o \in Descendants(s0.children, Group(s0.boxGroup)) :
                                HasGeometry(o)},
                     !.alone = (InFlight(s0) = {})]]
  IN loadTexture(s2, k, s0.currentBrand, s0.currentBoxType)

\* A createBox that cancels the calls in flight before it starts.
createBoxCancelsEarlier(s, k) ==
  LET s1 == [s EXCEPT
               !.calls = [j \in Calls |->
                            IF s.calls[j].pc \in Suspended
                            THEN [s.calls[j] EXCEPT !.pc = "cancelled"]
                            ELSE s.calls[j]]]
  IN BeginCreateBox(DisposePrevious(s1), s, k)

\* Lines 129-148: createBox from its call to its first await.
createBox(s, k) == BeginCreateBox(DisposePrevious(s), s, k)

\* ------------------------------------------- createBox, a rejected call
\* The statement of the build at which an exception is thrown: before the
\* box body is made, after the body or after the lid structure.
ThrowPoints == {"start", "body", "lid"}

\* Lines 200-508 run up to the statement that throws.
BuildUpTo(s, k, at) ==
  LET hasLidStructure ==
        s.calls[k].hasCroppedTextures
          /\ s.calls[k].croppedTextureSet.kind = "set"
  IN CASE at = "start" -> s
       [] at = "body" -> BuildBody(s, k)
       [] OTHER -> BuildLid(BuildBody(s, k), k, hasLidStructure)

\* A catch handler that swallows the rejection and logs nothing.
CatchCreateBoxErrorSilently(s, k) == s

\* Lines 95-97, 1412-1414 and 1444-1446: the handler every caller of
\* createBox attaches with .catch logs the rejection and does nothing else.
CatchCreateBoxError(s, k) ==
  [s EXCEPT !.consoleErrors = @ \cup {<<"Error creating box:", k>>}]

\* The exception leaves the async function: the promise of createBox
\* rejects and the caller's handler runs.
RejectCreateBox(s, k) ==
  CatchCreateBoxError([s EXCEPT !.calls[k].pc = "rejected"], k)

\* ---------------------------------------------------------- initial state
\* The module's globals before init runs (lines 16-26) and an empty cache.
Globals0 ==
  [scene |-> {}, children |-> [c \in Containers |-> {}], disposed |-> {},
   boxGroup |-> 0, boxBody |-> 0, lidGroup |-> 0,
   leftFlap |-> 0, rightFlap |-> 0, frontFlap |-> 0, backFlap |-> 0,
   bananas |-> <<>>, bananaModel |-> 0,
   dimensionsVisible |-> FALSE, dimensionsGroup |-> <<>>,
   currentBrand |-> "FRUTANA", currentBoxType |-> "22XU",
   flapsOpen |-> FALSE, lidOpen |-> FALSE,
   textureCache |-> [key \in CacheKeys |-> NoTex],
   lidBtnDisplay |-> "none",
   bodyType |-> [k \in Calls |-> "none"],
   flapRotation |-> [k \in Calls |-> [sd \in Sides |-> 0]],
   lidPos |-> Vec(0, 0, 0), lidTween |-> NoTween,
   calls |-> [k \in Calls |-> NoCall], nCalls |-> 0,
   consoleErrors |-> {}]

\* Lines 1469-1481: the lid button is shown at page load for FRUTALUXE only.
updateLidButtonVisibility(s) ==
  [s EXCEPT !.lidBtnDisplay =
              IF s.currentBrand = "FRUTALUXE" THEN "flex" ELSE "none"]

\* The DOMContentLoaded handler has run: init started the first createBox call
\* and created the empty dimensions group.
InitState == updateLidButtonVisibility(createBox(Globals0, 1))

\* The globals and the first createBox call after the page has loaded.
InitGlobals ==
  /\ scene = InitState.scene
  /\ children = InitState.children
  /\ disposed = InitState.disposed
  /\ boxGroup = InitState.boxGroup
  /\ boxBody = InitState.boxBody
  /\ lidGroup = InitState.lidGroup
  /\ leftFlap = InitState.leftFlap
  /\ rightFlap = InitState.rightFlap
  /\ frontFlap = InitState.frontFlap
  /\ backFlap = InitState.backFlap
  /\ bananas = InitState.bananas
  /\ bananaModel = InitState.bananaModel
  /\ dimensionsVisible = InitState.dimensionsVisible
  /\ dimensionsGroup = InitState.dimensionsGroup
  /\ currentBrand = InitState.currentBrand
  /\ currentBoxType = InitState.currentBoxType
  /\ flapsOpen = InitState.flapsOpen
  /\ lidOpen = InitState.lidOpen
  /\ textureCache = InitState.textureCache
  /\ lidBtnDisplay = InitState.lidBtnDisplay
  /\ bodyType = InitState.bodyType
  /\ flapRotation = InitState.flapRotation
  /\ lidPos = InitState.lidPos
  /\ lidTween = InitState.lidTween
  /\ calls = InitState.calls
  /\ nCalls = InitState.nCalls
  /\ consoleErrors = InitState.consoleErrors

\* The placement loop of createBananas is followed in SpecPack and the
\* cropped-texture loaders on their own in SpecLoaders; here no banana
\* placement is in progress and no loader is called from outside createBox.
NoPlacement ==
  /\ packBox = "22XU"
  /\ packModel = [size |-> Vec(1, 1, 1), centre |-> Vec(0, 0, 0)]
  /\ placed = <<>>
  /\ loaderCalls = <<>>
  /\ uvBox = NoUVBox

Init == InitGlobals /\ faults \in FaultKinds /\ NoPlacement

\* ---------------------------------------------------------------- actions
\* Click on a brand button (lines 1419-1447).
BrandClick(b) ==
  /\ nCalls < MaxCalls
  /\ LET s1 == [St EXCEPT
                  !.currentBrand = b,
                  !.lidBtnDisplay =
                     IF HasCropped(b, currentBoxType) THEN "flex" ELSE "none"]
     IN Commit(createBox(s1, nCalls + 1))

\* Change event of the box-type select (lines 1401-1415).
BoxTypeChange(t) ==
  /\ nCalls < MaxCalls
  /\ t # currentBoxType
  /\ LET s1 == [St EXCEPT
                  !.currentBoxType = t,
                  !.lidBtnDisplay =
                     IF currentBrand = "FRUTALUXE" THEN "flex" ELSE "none"]
     IN Commit(createBox(s1, nCalls + 1))

\* A callback of loadTexture's image load: the texture is cached and the
\* promise settles.
SettleTexture(s, k, result) ==
  LET cacheKey == TextureKey(s.calls[k].brand, s.calls[k].type)
      s1 == IF result.settled = "resolved"
            THEN [s EXCEPT !.textureCache[cacheKey] = result.value]
            ELSE s
  IN AfterTexture(s1, k, result)

TextureLoaded(k) ==
  /\ calls[k].pc = "texture"
  /\ Commit(SettleTexture(St, k, OnTextureLoad(calls[k].brand, k)))

TextureFailed(k) ==
  /\ faults = "texture"
  /\ calls[k].pc = "texture"
  /\ Commit(SettleTexture(St, k, OnTextureError(calls[k].brand, k)))

\* The 14 loads of a cropped-texture loader have all settled: the set is
\* cached and returned.
CroppedSettled(k, failed) ==
  /\ failed # {} => faults = "cropped"
  /\ calls[k].pc = "cropped"
  /\ LET set == CroppedSet(calls[k].setBrand, k, failed)
         s1 == [St EXCEPT !.textureCache[CroppedKey(calls[k].setBrand)] = set]
     IN Commit(AfterCropped(s1, k, set))

\* onLoad of the GLTF load (lines 810-820): the model is cached.
ModelLoaded(k) ==
  /\ calls[k].pc = "model"
  /\ Commit(AfterModel([St EXCEPT !.bananaModel = k], k, "resolved"))

\* onError of the GLTF load (lines 822-825): the promise rejects.
ModelFailed(k) ==
  /\ faults = "model"
  /\ calls[k].pc = "model"
  /\ Commit(AfterModel(St, k, "rejected"))

\* The load a createBox call waits for settles and a statement of the build
\* that follows throws (a constructor of the 3D library, a DOM call).  After
\* loadTexture a call that goes on to a cropped-texture loader can only throw
\* before that await.
BuildThrows(k, at) ==
  /\ faults = "exception"
  /\ calls[k].pc \in {"texture", "cropped"}
  /\ (calls[k].pc = "texture" /\ HasCropped(currentBrand, currentBoxType)) =>
       at = "start"
  /\ LET loaded == OnTextureLoad(calls[k].brand, k).value
         set == CroppedSet(calls[k].setBrand, k, {})
         s1 == IF calls[k].pc = "texture"
               THEN [St EXCEPT
                       !.textureCache[TextureKey(calls[k].brand,
                                                 calls[k].type)] = loaded,
                       !.calls[k].texture = loaded,
                       !.calls[k].hasCroppedTextures =
                          HasCropped(currentBrand, currentBoxType)]
               ELSE [St EXCEPT
                       !.textureCache[CroppedKey(calls[k].setBrand)] = set,
                       !.calls[k].croppedTextureSet = set]
     IN Commit(RejectCreateBox(BuildUpTo(s1, k, at), k))

\* Click on the lid button, which the user can reach only while displayed.
ToggleLidClick ==
  /\ lidBtnDisplay = "flex"
  /\ Commit(toggleLid(St))

ToggleDimensionsClick == Commit(toggleDimensions(St))

\* The tween on the current lid group's position runs to its end: the
\* position is the target of the tween started last.
LidTweenComplete ==
  /\ lidTween.active
  /\ Commit([St EXCEPT !.lidPos = lidTween.target, !.lidTween = NoTween])

\* The loader of brand b called (lines 128-130, 331-342) for a box of brand
\* `current` and type boxType: a cached set is returned at once; otherwise a
\* cached FRUTANA set is deleted and disposed, and the 14 image loads start.
CroppedLoaderCall(b, current, boxType) ==
  /\ Len(loaderCalls) < MaxLoaderCalls
  /\ LET cached == textureCache[CroppedKey(b)]
         call == [brand |-> b, current |-> current, boxType |-> boxType]
     IN IF CroppedCacheHit(textureCache, b)
        THEN /\ loaderCalls' =
                  Append(loaderCalls,
                         call @@ [pc |-> "resolved", value |-> cached,
                                  loads |-> {}, hit |-> TRUE])
             /\ UNCHANGED <<textureCache, disposed>>
        ELSE /\ loaderCalls' =
                  Append(loaderCalls,
                         call @@ [pc |-> "loading", value |-> NoSet,
                                  loads |-> CroppedFiles, hit |-> FALSE])
             /\ textureCache' = [textureCache EXCEPT ![CroppedKey(b)] = NoTex]
             /\ disposed' = IF cached.kind # "none"
                            THEN disposed \cup {TextureSet(cached.by)}
                            ELSE disposed
  /\ UNCHANGED <<scene, children, boxGroup, boxBody, lidGroup, leftFlap,
                 rightFlap, frontFlap, backFlap, bananas, bananaModel,
                 dimensionsVisible, dimensionsGroup, currentBrand,
                 currentBoxType, flapsOpen, lidOpen, lidBtnDisplay, bodyType,
                 flapRotation, lidPos, lidTween, calls, nCalls, consoleErrors,
                 faults, packBox, packModel, placed, uvBox>>

\* A cropped-texture loader called on its own.
CallCroppedLoader(b) == CroppedLoaderCall(b, b, "")

\* Lines 167-198 of createBox for the selected brand and box type: the
\* loader it picks is called.
ChooseCroppedLoader(brand, boxType) ==
  /\ HasCropped(brand, boxType)
  /\ CroppedLoaderCall(CroppedLoaderKey(brand, boxType)[1], brand, boxType)

\* The 14 loads of loader call i have all settled, the files of `failed`
\* with an error: the set is built, cached and returned.
LoaderSettles(i, failed) ==
  /\ i \in 1 .. Len(loaderCalls)
  /\ loaderCalls[i].pc = "loading"
  /\ LET set == CroppedSet(loaderCalls[i].brand, i, failed)
     IN /\ textureCache' =
             [textureCache EXCEPT ![CroppedKey(loaderCalls[i].brand)] = set]
        /\ loaderCalls' =
             [loaderCalls EXCEPT ![i].pc = "resolved", ![i].value = set]
  /\ UNCHANGED <<scene, children, disposed, boxGroup, boxBody, lidGroup,
                 leftFlap, rightFlap, frontFlap, backFlap, bananas,
                 bananaModel, dimensionsVisible, dimensionsGroup,
                 currentBrand, currentBoxType, flapsOpen, lidOpen,
                 lidBtnDisplay, bodyType, flapRotation, lidPos, lidTween,
                 calls, nCalls, consoleErrors, faults, packBox, packModel,
                 placed, uvBox>>

\* createBoxWithCustomUVs called with the dimensions drawn at the start.
CallCreateBoxWithCustomUVs ==
  /\ uvBox.uv = <<>>
  /\ uvBox' = [uvBox EXCEPT
                 !.uv = createBoxWithCustomUVs(uvBox.width, uvBox.height,
                                               uvBox.depth)]
  /\ UNCHANGED <<scene, children, disposed, boxGroup, boxBody, lidGroup,
                 leftFlap, rightFlap, frontFlap, backFlap, bananas,
                 bananaModel, dimensionsVisible, dimensionsGroup,
                 currentBrand, currentBoxType, flapsOpen, lidOpen,
                 textureCache, lidBtnDisplay, bodyType, flapRotation, lidPos,
                 lidTween, calls, nCalls, consoleErrors, faults, loaderCalls,
                 packBox, packModel, placed>>

\* ---------------------------------------------------------- specifications
\* Rebuilds and the loads they wait for.
Next ==
  \/ \E b \in BrandButtons : BrandClick(b)
  \/ \E t \in BoxTypes : BoxTypeChange(t)
  \/ \E k \in Calls : TextureLoaded(k)
  \/ \E k \in Calls : TextureFailed(k)
  \/ \E k \in Calls, failed \in FailurePatterns : CroppedSettled(k, failed)
  \/ \E k \in Calls : ModelLoaded(k)
  \/ \E k \in Calls : ModelFailed(k)

Spec == Init /\ [][Next]_vars

\* Rebuilds, loads and the dimensions button.  The lid button and the lid
\* tween write lidOpen, lidPos and lidTween only, which no action of this
\* specification reads.
NextDims ==
  \/ \E b \in BrandButtons : BrandClick(b)
  \/ \E t \in BoxTypes : BoxTypeChange(t)
  \/ \E k \in Calls : TextureLoaded(k)
  \/ \E k \in Calls : TextureFailed(k)
  \/ \E k \in Calls, failed \in FailurePatterns : CroppedSettled(k, failed)
  \/ \E k \in Calls : ModelLoaded(k)
  \/ \E k \in Calls : ModelFailed(k)
  \/ ToggleDimensionsClick

SpecDims == Init /\ [][NextDims]_vars

\* Rebuilds, loads, the lid button and the lid tween, in the runs where the
\* banana model is the asset that may fail to load.  The dimensions button
\* writes dimensionsVisible and dimensionsGroup only, which no action of this
\* specification reads.
InitLid == Init /\ faults = "model"

NextLid ==
  \/ \E b \in BrandButtons : BrandClick(b)
  \/ \E t \in BoxTypes : BoxTypeChange(t)
  \/ \E k \in Calls : TextureLoaded(k)
  \/ \E k \in Calls, failed \in FailurePatterns : CroppedSettled(k, failed)
  \/ \E k \in Calls : ModelLoaded(k)
  \/ \E k \in Calls : ModelFailed(k)
  \/ ToggleLidClick
  \/ LidTweenComplete

SpecLid == InitLid /\ [][NextLid]_vars

\* The same, in the runs where a running tween ends and the user keeps
\* pressing the lid button while the page shows it.
SpecLidFair ==
  SpecLid /\ WF_vars(LidTweenComplete) /\ WF_vars(ToggleLidClick)

\* The placement loop of createBananas on its own, one banana a step, for
\* each box type and each model bounding box.  The loop reads the box body,
\* the model and Math.random only, and runs without an await.
InitPack ==
  /\ InitGlobals /\ faults = "model"
  /\ packBox \in BoxTypes
  /\ packModel \in BananaModels
  /\ placed = <<>>
  /\ loaderCalls = <<>>
  /\ uvBox = NoUVBox

NextBanana(rot) ==
  /\ Len(placed) < bananaRows * bananaCols
  /\ placed' = Append(placed,
                      PlaceBanana(packBox, packModel,
                                  Len(placed) \div bananaCols,
                                  Len(placed) % bananaCols, rot))
  /\ UNCHANGED <<scene, children, disposed, boxGroup, boxBody, lidGroup,
                 leftFlap, rightFlap, frontFlap, backFlap, bananas,
                 bananaModel, dimensionsVisible, dimensionsGroup,
                 currentBrand, currentBoxType, flapsOpen, lidOpen,
                 textureCache, lidBtnDisplay, bodyType, flapRotation, lidPos,
                 lidTween, calls, nCalls, consoleErrors, faults, loaderCalls,
                 packBox, packModel, uvBox>>

NextPack == \E rot \in Rotations : NextBanana(rot)

SpecPack == InitPack /\ [][NextPack]_vars

\* Rebuilds and loads in the runs where every asset loads and a statement of
\* the build may throw.
InitErr == InitGlobals /\ faults = "exception" /\ NoPlacement

NextErr ==
  \/ \E b \in BrandButtons : BrandClick(b)
  \/ \E t \in BoxTypes : BoxTypeChange(t)
  \/ \E k \in Calls : TextureLoaded(k)
  \/ \E k \in Calls, failed \in FailurePatterns : CroppedSettled(k, failed)
  \/ \E k \in Calls : ModelLoaded(k)
  \/ \E k \in Calls, at \in ThrowPoints : BuildThrows(k, at)

SpecErr == InitErr /\ [][NextErr]_vars

\* The five cropped-texture loaders on their own: calls of any of them in any
\* order, overlapping or not, with any of the failure patterns.
InitLoaders == InitGlobals /\ faults = "cropped" /\ NoPlacement

NextLoaders ==
  \/ \E b \in brandsWithCroppedTextures : CallCroppedLoader(b)
  \/ \E i \in 1 .. MaxLoaderCalls, failed \in LoaderFailurePatterns :
       LoaderSettles(i, failed)

SpecLoaders == InitLoaders /\ [][NextLoaders]_vars

\* The loader choice of createBox for every brand with cropped textures and
\* both box types, in any order, the loads failing or not.
NextSets ==
  \/ \E b \in brandsWithCroppedTextures, t \in BoxTypes :
       ChooseCroppedLoader(b, t)
  \/ \E i \in 1 .. MaxLoaderCalls, failed \in FailurePatterns :
       LoaderSettles(i, failed)

SpecSets == InitLoaders /\ [][NextSets]_vars

\* createBoxWithCustomUVs on its own, for every width, height and depth up
\* to MaxDim.
InitUV ==
  /\ InitGlobals /\ faults = "texture"
  /\ packBox = "22XU"
  /\ packModel = [size |-> Vec(1, 1, 1), centre |-> Vec(0, 0, 0)]
  /\ placed = <<>>
  /\ loaderCalls = <<>>
  /\ uvBox \in [width : 1 .. MaxDim, height : 1 .. MaxDim,
                 depth : 1 .. MaxDim, uv : {<<>>}]

NextUV == CallCreateBoxWithCustomUVs

SpecUV == InitUV /\ [][NextUV]_vars

\* ------------------------------------------------------------------ claims
CallsInFlight == {k \in Calls : calls[k].pc \in Suspended}

\* The step completes call k.
Completes(k) == calls[k].pc # "done" /\ calls'[k].pc = "done"

\* The step runs the build part of call k (body, lid, flaps).
Builds(k) ==
  /\ calls[k].pc \in {"idle", "texture", "cropped"}
  /\ calls'[k].pc \in {"model", "done"}

\* C1: when a brand click or a box-type change starts createBox while no other
\* call is in flight, then at the step that completes this call the previous
\* box group is not in the scene, every geometry and material below the
\* previous group has been disposed, and the scene holds exactly one box
\* group, a group built after the previous one.
C1_RebuildReplacesGroup ==
  [][\A k \in Calls :
       (k > 1 /\ Completes(k) /\ calls'[k].alone) =>
         /\ calls'[k].prev # 0
         /\ calls'[k].prev \notin scene'
         /\ calls'[k].prevObjects \subseteq disposed'
         /\ scene' = {boxGroup'}
         /\ boxGroup' >= k
         /\ (nCalls' = k => boxGroup' = k)]_vars

C1_Witness ==
  \E k \in Calls :
    /\ k > 1 /\ calls[k].pc = "done" /\ calls[k].alone
    /\ Body(calls[k].prev) \in calls[k].prevObjects
    /\ calls[k].prevObjects \subseteq disposed
    /\ scene = {k}

\* C2: a brand click or box-type change that arrives while a createBox call is
\* suspended starts a new call in the same step and leaves every suspended
\* call as it was; no call is ever aborted or rejected, each is waiting for a
\* load or has completed; and a call that resumes writes boxBody,
\* lidGroup and the four flaps, adds its body to the current box group,
\* appends its bananas to the bananas array and adds the current box group to
\* the scene, whichever calls overlap it.
C2_ReentrantCreateBox ==
  /\ [](\A k \in Calls : calls[k].pc \in {"idle", "done"} \cup Suspended)
  /\ [][(nCalls' = nCalls + 1 /\ CallsInFlight # {}) =>
          /\ calls'[nCalls'].pc \in Suspended \cup {"done"}
          /\ \A k \in CallsInFlight : calls'[k] = calls[k]]_vars
  /\ [][\A k \in Calls :
          /\ Builds(k) =>
               /\ boxBody' = k
               /\ frontFlap' = k /\ backFlap' = k
               /\ leftFlap' = k /\ rightFlap' = k
               /\ lidGroup' \in {0, k}
               /\ Body(k) \in children'[Group(boxGroup')]
          /\ Completes(k) =>
               /\ bananas' # <<>>
               /\ bananas'[Len(bananas')][2] = k
               /\ boxGroup' \in scene']_vars

C2_Witness ==
  \E j \in Calls, k \in Calls :
    /\ j < k
    /\ calls[j].pc = "done" /\ calls[k].pc = "done"
    /\ ~calls[k].alone
    /\ boxBody = j /\ boxGroup = k
    /\ Len(bananas) > bananaRows * bananaCols

\* C3: the promise of loadTexture never rejects; a failed image load resolves
\* it with a placeholder filled with the brand's colour (FRUTANA's colour for a
\* brand the colour table does not list) and labelled with the brand name.
C3_LoadTextureAlwaysResolves ==
  \A k \in Calls :
    /\ calls[k].pc # "rejected"
    /\ calls[k].pc \in {"cropped", "model", "done"} =>
         calls[k].texture.kind \in {"image", "fallback"}
    /\ calls[k].texture.kind = "fallback" =>
         /\ calls[k].texture.label = calls[k].brand
         /\ calls[k].texture.fill =
              IF calls[k].brand \in brandsWithCroppedTextures
              THEN colors[calls[k].brand] ELSE "#e74c3c"

C3_Witness ==
  \E j \in Calls, k \in Calls :
    /\ calls[j].pc = "done" /\ calls[k].pc = "done"
    /\ calls[j].texture.kind = "fallback" /\ calls[j].brand = "OTHER"
    /\ calls[j].texture.fill = "#e74c3c" /\ calls[j].texture.label = "OTHER"
    /\ calls[k].texture.kind = "fallback" /\ calls[k].brand = "FRUTANA"

\* C4: at the step where the banana model load of call k fails, createBananas
\* pushes exactly 4 procedural bananas of this call to the bananas array and
\* adds them to the box group, and createBox adds the box group to the scene
\* and completes; the call does not reject.
C4_ModelFailureFallsBack ==
  [][\A k \in Calls :
       ModelFailed(k) =>
         /\ Len(bananas') = Len(bananas) + 4
         /\ \A i \in 1 .. 4 :
              /\ bananas'[Len(bananas) + i] = Banana(k, i)
              /\ Banana(k, i) \in children'[Group(boxGroup')]
         /\ Cardinality({o \in children'[Group(boxGroup')] :
                           o[1] = "banana" /\ o[2] = k}) = 4
         /\ boxGroup' \in scene'
         /\ calls'[k].pc = "done"]_vars

C4_Witness ==
  \E k \in Calls :
    /\ calls[k].pc = "done" /\ calls[k].bananaKind = "fallback"
    /\ bananas = SeqOfBananas(k, 4)
    /\ boxGroup \in scene

\* C10: once loadTexture has resolved for a (brand, boxType) pair, the object
\* the cache holds for the pair never changes, a call that starts while the
\* pair is cached takes that object and starts no load, and this holds for a
\* placeholder as for a loaded image (a failed load is not retried).
C10_CachedTextureIsStable ==
  /\ [][\A key \in {TextureKey(b, bt) : b \in BrandButtons, bt \in BoxTypes} :
          textureCache[key].kind # "none" =>
            textureCache'[key] = textureCache[key]]_vars
  /\ [][(nCalls' = nCalls + 1
           /\ textureCache[TextureKey(currentBrand', currentBoxType')].kind
                # "none") =>
          /\ calls'[nCalls'].pc # "texture"
          /\ calls'[nCalls'].texture
               = textureCache[TextureKey(currentBrand', currentBoxType')]]_vars

C8_ToggleLid ==
  [][LET dims == boxDimensions[currentBoxType]
         lifted == Vec((dims.width * 12) \div 10, dims.height + 500, 0)
         Pose(open) == IF open THEN lifted ELSE Vec(0, 0, 0)
     IN ToggleLidClick =>
          IF lidGroup # 0
          THEN /\ lidOpen' = ~lidOpen
               /\ lidTween'.active
               /\ lidTween'.target = Pose(lidOpen')
               /\ lidPos' = lidPos
               /\ (~lidTween.active /\ CallsInFlight = {}) =>
                    lidPos = Pose(lidOpen)
          ELSE UNCHANGED vars]_vars

\* C9: a click on the dimensions button flips dimensionsVisible; after that
\* click and after the step that completes a createBox call (the two callers
\* of updateDimensions) the dimensions group is empty when dimensionsVisible is
\* false and otherwise holds 3 lines and 6 arrows: the lines span the width
\* along x, the height along y and the depth along z of
\* boxDimensions[currentBoxType], and each line's two arrows sit on its ends.
C9_DimsOK ==
  [][LET dims == boxDimensions[currentBoxType']
         g == dimensionsGroup'
         OK ==
           IF ~dimensionsVisible' THEN g = <<>>
           ELSE /\ Len(g) = 9
                /\ Cardinality({i \in 1 .. 9 : g[i].kind = "line"}) = 3
                /\ Cardinality({i \in 1 .. 9 : g[i].kind = "arrow"}) = 6
                /\ g[1].to.x - g[1].from.x = 2 * (dims.width \div 2)
                /\ g[1].from.y = dims.height + 1500 /\ g[1].to.y = g[1].from.y
                /\ g[4].from.y = 0 /\ g[4].to.y = dims.height
                /\ g[4].from.x = dims.width \div 2 + 1000
                /\ g[7].to.z - g[7].from.z = 2 * (dims.depth \div 2)
                /\ g[7].from.y = dims.height + 500
                /\ \A l \in {1, 4, 7} :
                     /\ g[l].kind = "line"
                     /\ g[l + 1].from = g[l].from
                     /\ g[l + 2].from = g[l].to
     IN /\ ToggleDimensionsClick =>
             (dimensionsVisible' = ~dimensionsVisible /\ OK)
        /\ \A k \in Calls : Completes(k) => OK]_vars

C9_Witness ==
  /\ dimensionsVisible /\ currentBoxType = "208"
  /\ Len(dimensionsGroup) = 9
  /\ dimensionsGroup[4].to.y = 2130
  /\ \E k \in Calls : k > 1 /\ calls[k].pc = "done" /\ calls[k].type = "208"

C6_NoTwoBananasOverlap ==
  \A i \in 1 .. Len(placed), j \in 1 .. Len(placed) :
    i < j =>
      \E a \in Axes :
        placed[i].max[a] <= placed[j].min[a] \/ placed[j].max[a] <= placed[i].min[a]

\* C11: for each of the five brands, a call of the brand's cropped-texture
\* loader made after an earlier call of it has resolved resolves at once with
\* the set the cache holds, the set an earlier call returned, starts no image
\* load and leaves the cache as it is.
C11_CroppedLoaderReturnsCachedSet ==
  [][\A b \in brandsWithCroppedTextures :
       (/\ CallCroppedLoader(b)
        /\ \E j \in 1 .. Len(loaderCalls) :
             loaderCalls[j].brand = b /\ loaderCalls[j].pc = "resolved") =>
         /\ loaderCalls'[Len(loaderCalls')].pc = "resolved"
         /\ loaderCalls'[Len(loaderCalls')].loads = {}
         /\ loaderCalls'[Len(loaderCalls')].value.kind = "set"
         /\ loaderCalls'[Len(loaderCalls')].value = textureCache[CroppedKey(b)]
         /\ \E j \in 1 .. Len(loaderCalls) :
              /\ loaderCalls[j].brand = b
              /\ loaderCalls[j].value = loaderCalls'[Len(loaderCalls')].value
         /\ textureCache' = textureCache]_vars

\* C20: no cropped-texture loader call rejects, and the set a call resolves
\* with has its five faces, two interiors, four top flap and four bottom flap
\* textures all defined, each the loaded image or the placeholder of the
\* loader's brand (the brand's colour, labelled with the brand name).
C20_CroppedSetIsComplete ==
  \A i \in 1 .. Len(loaderCalls) :
    LET set == loaderCalls[i].value
        brand == loaderCalls[i].brand
        Defined(tex) ==
          \/ tex.kind = "image"
          \/ /\ tex.kind = "fallback"
             /\ tex.fill = colors[brand]
             /\ tex.label = brand
    IN /\ loaderCalls[i].pc \in {"loading", "resolved"}
       /\ loaderCalls[i].pc = "resolved" =>
            /\ set.kind = "set"
            /\ DOMAIN set.faces = {"right", "left", "front", "back", "bottom"}
            /\ \A f \in DOMAIN set.faces : Defined(set.faces[f])
            /\ DOMAIN set.interiors = {"long", "short"}
            /\ \A f \in DOMAIN set.interiors : Defined(set.interiors[f])
            /\ DOMAIN set.flaps = {"top", "bottom"}
            /\ \A g \in DOMAIN set.flaps :
                 /\ DOMAIN set.flaps[g] = {"long1", "long2", "short1", "short2"}
                 /\ \A f \in DOMAIN set.flaps[g] : Defined(set.flaps[g][f])

C20_Witness ==
  \E i \in 1 .. Len(loaderCalls), j \in 1 .. Len(loaderCalls) :
    /\ loaderCalls[i].pc = "resolved" /\ loaderCalls[i].brand = "SINDIBAD"
    /\ loaderCalls[i].value.faces["bottom"].kind = "fallback"
    /\ loaderCalls[i].value.faces["bottom"].fill = "#f39c12"
    /\ loaderCalls[i].value.interiors["long"].kind = "fallback"
    /\ loaderCalls[j].pc = "resolved" /\ loaderCalls[j].brand = "FRUTANA JOY"
    /\ loaderCalls[j].value.faces["right"].kind = "fallback"
    /\ loaderCalls[j].value.faces["right"].label = "FRUTANA JOY"
    /\ loaderCalls[j].value.faces["left"].kind = "image"

\* The step rejects call k.
Rejects(k) == calls[k].pc # "rejected" /\ calls'[k].pc = "rejected"

\* C12: a createBox call that rejects, whichever handler started it, is logged
\* to the console by its caller's catch handler in the step that rejects it;
\* that step starts no createBox call and changes neither another call nor
\* what the page shows (scene, lid button, dimension annotations, brand, box
\* type); the rejected call is never resumed, and a createBox call starts only
\* with a brand click or a box-type change.
C12_RejectionIsLoggedNotRetried ==
  /\ [](\A k \in Calls :
          calls[k].pc = "rejected" =>
            <<"Error creating box:", k>> \in consoleErrors)
  /\ [][\A k \in Calls :
          /\ Rejects(k) =>
               /\ consoleErrors' =
                    consoleErrors \cup {<<"Error creating box:", k>>}
               /\ nCalls' = nCalls
               /\ \A j \in Calls \ {k} : calls'[j] = calls[j]
               /\ scene' = scene
               /\ lidBtnDisplay' = lidBtnDisplay
               /\ dimensionsGroup' = dimensionsGroup
               /\ dimensionsVisible' = dimensionsVisible
               /\ currentBrand' = currentBrand
               /\ currentBoxType' = currentBoxType
          /\ calls[k].pc = "rejected" => calls'[k] = calls[k]]_vars
  /\ [][nCalls' # nCalls =>
          \/ \E b \in BrandButtons : BrandClick(b)
          \/ \E bt \in BoxTypes : BoxTypeChange(bt)]_vars

C12_Witness ==
  /\ calls[1].pc = "rejected" /\ calls[2].pc = "rejected"
  /\ consoleErrors = {<<"Error creating box:", 1>>, <<"Error creating box:", 2>>}
  /\ calls[2].type = "208"
  /\ boxBody = 2
  /\ scene = {}

\* C13: a createBox call takes its box type when it starts and keeps it; the
\* body it builds has the width, height and depth of boxDimensions for that
\* type, 5.22 x 2.36 x 3.87 for 22XU and 5.15 x 2.13 x 3.42 for 208, also when
\* the current box type has changed since; a body once built keeps them.
C13_BodyHasTableDimensions ==
  /\ [][nCalls' = nCalls + 1 =>
          calls'[nCalls'].type = currentBoxType']_vars
  /\ [][\A k \in Calls :
          /\ calls[k].pc # "idle" => calls'[k].type = calls[k].type
          /\ bodyType[k] # "none" => bodyType'[k] = bodyType[k]
          /\ Builds(k) =>
               /\ bodyType'[k] = calls'[k].type
               /\ calls'[k].type = "22XU" =>
                    BoxGeometry(boxDimensions[bodyType'[k]])
                      = [width |-> 5220, height |-> 2360, depth |-> 3870]
               /\ calls'[k].type = "208" =>
                    BoxGeometry(boxDimensions[bodyType'[k]])
                      = [width |-> 5150, height |-> 2130, depth |-> 3420]]_vars

C13_Witness ==
  /\ calls[1].pc = "done" /\ calls[2].pc = "done"
  /\ bodyType[1] = "22XU" /\ bodyType[2] = "208"
  /\ currentBoxType = "208"
  /\ boxBody = 1

\* The box bodies and the top flaps below the current box group.
BodiesInGroup ==
  {o \in Descendants(children, Group(boxGroup)) : o[1] = "body"}

FlapsInGroup ==
  {o \in Descendants(children, Group(boxGroup)) : o[1] = "flap"}

\* C14: whenever a createBox call has run and none is in flight, the scene
\* holds the current box group, and that group contains exactly one box body
\* and the four flaps of one build, the body having the dimensions of
\* boxDimensions[currentBoxType].
C14_OneBodyOneFlapSet ==
  (nCalls > 0 /\ CallsInFlight = {}) =>
    /\ scene = {boxGroup}
    /\ Cardinality(BodiesInGroup) = 1
    /\ Cardinality(FlapsInGroup) = 4
    /\ \E k \in Calls : FlapsInGroup = {Flap(k, sd) : sd \in Sides}
    /\ \A o \in BodiesInGroup :
         BoxGeometry(boxDimensions[bodyType[o[2]]])
           = BoxGeometry(boxDimensions[currentBoxType])

\* The bananas that are children of the current box group.
BananasInGroup == {o \in children[Group(boxGroup)] : o[1] = "banana"}

\* C15: whenever a createBox call has run and none is in flight, the current
\* box group contains exactly 8 model bananas or exactly 4 fallback bananas,
\* and the bananas array lists exactly the bananas that are children of the
\* current box group, each once.
C15_BananasMatchGroup ==
  (nCalls > 0 /\ CallsInFlight = {}) =>
    /\ \E k \in Calls :
         \/ /\ calls[k].bananaKind = "model"
            /\ BananasInGroup
                 = {Banana(k, i) : i \in 1 .. bananaRows * bananaCols}
         \/ /\ calls[k].bananaKind = "fallback"
            /\ BananasInGroup = {Banana(k, i) : i \in 1 .. bananaCount}
    /\ {bananas[i] : i \in 1 .. Len(bananas)} = BananasInGroup
    /\ Len(bananas) = Cardinality(BananasInGroup)

\* C16: whenever there is a lid group, no lid tween is running and no
\* createBox call is in flight, lidOpen is true exactly when the lid group
\* is at the lifted position (1.2 * width, height + 0.5, 0) of the current box
\* type and false exactly when it is at (0, 0, 0).
C16_LidOpenMatchesPosition ==
  (lidGroup # 0 /\ ~lidTween.active /\ CallsInFlight = {}) =>
    /\ lidOpen <=> lidPos = LidTarget(TRUE, currentBoxType)
    /\ ~lidOpen <=> lidPos = Vec(0, 0, 0)

\* C17: after the step of a box-type change, of a brand click or of the
\* completion of a createBox call, the lid button is displayed exactly when
\* the current brand is one of the five cropped-texture brands and the box
\* type is 22XU or 208.
C17_LidButtonShownForCroppedBrands ==
  [][(nCalls' = nCalls + 1 \/ \E k \in Calls : Completes(k)) =>
       (lidBtnDisplay' = "flex" <=>
          /\ currentBrand' \in {"FRUTALUXE", "FRUTANA JOY", "FRUTANA",
                                 "FRUTANOVA", "SINDIBAD"}
          /\ currentBoxType' \in {"22XU", "208"})]_vars

\* C18: the step that starts a createBox call takes the previous box group
\* out of the scene; a box group enters the scene only in the step that
\* completes a call; so while a call is waiting for a load, and when the call
\* started last has rejected, the scene contains no box group.
C18_NoGroupInSceneDuringRebuild ==
  /\ [][nCalls' = nCalls + 1 => boxGroup \notin scene']_vars
  /\ [][scene' \ scene # {} => \E k \in Calls : Completes(k)]_vars
  /\ [](CallsInFlight # {} => scene = {})
  /\ []((nCalls > 0 /\ calls[nCalls].pc = "rejected") => scene = {})

\* C19: in the state after the step that completes a createBox call, lidOpen
\* is false and, when there is a lid group, its y position is 0, whatever
\* lidOpen and the lid position were before.
C19_CompletionResetsLid ==
  [][\A k \in Calls :
       Completes(k) =>
         /\ lidOpen' = FALSE
         /\ lidGroup' # 0 => lidPos'.y = 0]_vars

C19_Witness ==
  /\ \E k \in Calls : calls[k].pc = "done" /\ lidGroup = k
  /\ CallsInFlight = {}
  /\ ~lidOpen /\ ~lidTween.active
  /\ lidPos.y = 0 /\ lidPos.x = LidTarget(TRUE, currentBoxType).x

C22_SetDependsOnBrandOnly ==
  \A j \in 1 .. Len(loaderCalls) :
    LET r == loaderCalls[j]
    IN /\ r.brand = r.current
       /\ r.pc = "resolved" =>
            r.value.kind = "set" /\ r.value.brand = r.current
       /\ r.hit =>
            \E i \in 1 .. j - 1 :
              /\ loaderCalls[i].current = r.current
              /\ loaderCalls[i].pc = "resolved"
              /\ loaderCalls[i].value = r.value

\* A 22XU box and a later 208 box of one brand built from the same set.
C22_Witness ==
  \E i, j \in 1 .. Len(loaderCalls) :
    /\ i < j
    /\ loaderCalls[i].current = "SINDIBAD"
    /\ loaderCalls[j].current = "SINDIBAD"
    /\ loaderCalls[i].boxType = "22XU"
    /\ loaderCalls[j].boxType = "208"
    /\ loaderCalls[j].hit
    /\ loaderCalls[j].value = loaderCalls[i].value
    /\ loaderCalls[j].value.kind = "set"

\* C23: a createBox call that reaches createBananas while a model is cached
\* places the model bananas and completes in the same step, starting no load
\* and leaving the cached model as it is; a cached model is never dropped; a
\* failed load leaves bananaModel as it was, and a call that reaches
\* createBananas while no model is cached waits for a load of its own.
C23_ModelCachedOnSuccessOnly ==
  [][/\ bananaModel # 0 => bananaModel' # 0
     /\ \A k \in Calls :
          /\ (Builds(k) /\ bananaModel # 0) =>
               /\ calls'[k].pc = "done"
               /\ calls'[k].bananaKind = "model"
               /\ bananaModel' = bananaModel
          /\ (Builds(k) /\ bananaModel = 0) =>
               /\ calls'[k].pc = "model"
               /\ bananaModel' = 0
          /\ ModelFailed(k) => bananaModel' = bananaModel
          /\ ModelLoaded(k) => bananaModel' # 0]_vars

\* The second call, started after the first call's load succeeded, has
\* completed with model bananas and the first call's model is still cached.
C23_Witness ==
  /\ calls[1].pc = "done" /\ calls[1].bananaKind = "model"
  /\ calls[2].alone
  /\ calls[2].pc = "done" /\ calls[2].bananaKind = "model"
  /\ bananaModel = 1

\* The second call, started after the first call's load failed, waits for a
\* load of its own.
C23_RetryWitness ==
  /\ calls[1].pc = "done" /\ calls[1].bananaKind = "fallback"
  /\ calls[2].alone
  /\ calls[2].pc = "model"
  /\ bananaModel = 0

NetFaces == {"bottom", "front", "back", "left", "right"}

FaceCoordinates(f) ==
  {uvBox.uv[FaceStart[f] + i][j] : i \in 0 .. 3, j \in 1 .. 2}

\* The spacing of the floating-point numbers at 1.0, in units.
UlpOfOne == One \div Pow2(MantissaBits - 1)

\* C25: for all positive width, height and depth, every UV coordinate of the
\* bottom, front, back, left and right faces lies in [0.05, 0.95], and the
\* bottom face's rectangle is centred at (0.5, 0.5).
C25_UVsWithinMargins ==
  uvBox.uv # <<>> =>
    /\ \A f \in NetFaces :
         \A c \in FaceCoordinates(f) : One <= 20 * c /\ 20 * c <= 19 * One
    /\ uvBox.uv[12][1] + uvBox.uv[13][1] = One
    /\ uvBox.uv[12][2] + uvBox.uv[14][2] = One

\* C25, as amended: every UV coordinate of the five faces lies in
\* [0.05, 0.95] and the centre of the bottom face's rectangle is at
\* (0.5, 0.5), each up to one spacing of the floating-point numbers at 1.0.
C25_UVsWithinMarginsUpToRounding ==
  uvBox.uv # <<>> =>
    /\ \A f \in NetFaces :
         \A c \in FaceCoordinates(f) :
           /\ One <= 20 * (c + UlpOfOne)
           /\ 20 * (c - UlpOfOne) <= 19 * One
    /\ uvBox.uv[12][1] + uvBox.uv[13][1] \in
         (One - 2 * UlpOfOne) .. (One + 2 * UlpOfOne)
    /\ uvBox.uv[12][2] + uvBox.uv[14][2] \in
         (One - 2 * UlpOfOne) .. (One + 2 * UlpOfOne)

\* A layout computed for a box of the proportions of the 22XU box, whose
\* outermost coordinate is beyond the margin by less than the rounding.
C25_Witness ==
  /\ uvBox.width = 5 /\ uvBox.height = 2 /\ uvBox.depth = 4
  /\ uvBox.uv # <<>>
  /\ \E f \in NetFaces :
       \E c \in FaceCoordinates(f) : 20 * c < One \/ 20 * c > 19 * One

\* The rectangle of face f in the uv attribute, and whether the four
\* vertices of the face are its corners in the order bottom-left,
\* bottom-right, top-right, top-left (v grows downwards in the layout).
Rect(f) ==
  LET s == FaceStart[f]
  IN [l |-> uvBox.uv[s][1], r |-> uvBox.uv[s + 1][1],
      b |-> uvBox.uv[s][2], t |-> uvBox.uv[s + 2][2]]

IsRect(f) ==
  LET s == FaceStart[f]
      q == Rect(f)
  IN /\ uvBox.uv[s] = <<q.l, q.b>> /\ uvBox.uv[s + 1] = <<q.r, q.b>>
     /\ uvBox.uv[s + 2] = <<q.r, q.t>> /\ uvBox.uv[s + 3] = <<q.l, q.t>>
     /\ q.l < q.r /\ q.t < q.b

\* The four edges of a rectangle as segments: the direction, the line and
\* the two ends.
Edges(q) ==
  {<<"h", q.t, q.l, q.r>>, <<"h", q.b, q.l, q.r>>,
   <<"v", q.l, q.t, q.b>>, <<"v", q.r, q.t, q.b>>}

\* The full edges q has in common with the bottom rectangle.
SharedWithBottom(q) == Edges(q) \cap Edges(Rect("bottom"))

Overlap(p, q) == p.l < q.r /\ q.l < p.r /\ p.t < q.b /\ q.t < p.b

\* C26: in the layout createBoxWithCustomUVs applies, each of the front,
\* back, left and right rectangles has exactly one edge in common with the
\* bottom rectangle, a full edge of both: the front's top edge is the
\* bottom's lower edge, the back's lower edge is the bottom's top edge, the
\* left's right edge is the bottom's left edge and the right's left edge is
\* the bottom's right edge; and no two of the five rectangles overlap in area.
C26_NetFacesShareOneEdgeAndDoNotOverlap ==
  uvBox.uv # <<>> =>
    LET bottom == Rect("bottom")
    IN /\ \A f \in NetFaces : IsRect(f)
       /\ \A f \in NetFaces \ {"bottom"} :
            Cardinality(SharedWithBottom(Rect(f))) = 1
       /\ Rect("front").t = bottom.b /\ Rect("front").b > bottom.b
       /\ Rect("front").l = bottom.l /\ Rect("front").r = bottom.r
       /\ Rect("back").b = bottom.t /\ Rect("back").t < bottom.t
       /\ Rect("back").l = bottom.l /\ Rect("back").r = bottom.r
       /\ Rect("left").r = bottom.l /\ Rect("left").l < bottom.l
       /\ Rect("left").t = bottom.t /\ Rect("left").b = bottom.b
       /\ Rect("right").l = bottom.r /\ Rect("right").r > bottom.r
       /\ Rect("right").t = bottom.t /\ Rect("right").b = bottom.b
       /\ \A f \in NetFaces, g \in NetFaces :
            f # g => ~Overlap(Rect(f), Rect(g))

\* The layout of a box of the proportions of the 208 box, with the four
\* side rectangles around the bottom rectangle.
C26_Witness ==
  /\ uvBox.width = 5 /\ uvBox.height = 2 /\ uvBox.depth = 3
  /\ uvBox.uv # <<>>
  /\ \A f \in NetFaces : IsRect(f)
  /\ Rect("front").t = Rect("bottom").b
  /\ Rect("left").r = Rect("bottom").l

====
